---- MODULE Spec2Model ----
(***************************************************************************)
(* Model of packages/react-dom-bindings/src/client/inputValueTracking.js   *)
(*                                                                         *)
(* A form control ("node") is an object with two host slots (the string    *)
(* behind `value`, the boolean behind `checked`), a `type`, a `nodeName`,  *)
(* the hidden `_valueTracker` reference and, per field, at most one        *)
(* instance-level (own) property.  Its class (node.constructor.prototype)  *)
(* carries one property descriptor per field, which the environment may    *)
(* replace or delete.  A property read or write resolves as in JavaScript: *)
(* the own property first, then the class descriptor; a read that finds no *)
(* getter yields undefined.                                                *)
(*                                                                         *)
(* JavaScript values are encoded as strings: a JS string is itself, the    *)
(* booleans are "#true" and "#false", undefined is "#undefined".           *)
(*                                                                         *)
(* tracker[n] is the closure trackValueOnNode built last for node n (its   *)
(* currentValue cell, valueField and captured accessor pair); closures     *)
(* built before it are unreachable once stopTracking has run.              *)
(*                                                                         *)
(* Not modelled: the __DEV__ diagnostic checkFormFieldValueStringCoercion  *)
(* (the values here are primitives, for which it does nothing) and the     *)
(* `enumerable` flag the second Object.defineProperty copies.  Scripts     *)
(* write a field only when a setter resolves for it.                       *)
(***************************************************************************)
EXTENDS Integers, Sequences, FiniteSets, TLC

\* ------------------------------------------------------------- bounds
\* Number of tracker objects (closures) that may ever be created.
MaxTrackers == 2

\* How many writes may be entered, nested in one another or one after the
\* other, before the outermost intercepted write returns.
MaxCalls == 2

\* ------------------------------------------------------------- values
JsTrue == "#true"
JsFalse == "#false"
JsUndefined == "#undefined"

\* Strings the host may put behind `value`.
Strs == {"a", "b"}
\* Values a script may assign to a field (a string and a boolean).
Written == {"a", JsTrue}

Fields == {"value", "checked"}
NodeNames == {"INPUT", "input", "TEXTAREA"}
Types == {"text", "checkbox", "radio"}

AllNodes == {"n1", "n2"}
\* The absent (null / undefined) node reference.
NoNode == "null"

\* node._valueTracker is undefined (never assigned, or assigned the result
\* of a bail), null (detached) or a tracker object, named by its number.
TUndefined == 0
TNull == -1
TrackerIds == 1..MaxTrackers

\* Accessor functions: the host's native one, one a later redefinition of
\* the class descriptor brought, or none.
Accessors == {"native", "patched"}
NoAccessor == "none"

\* An own property of a node: none, one somebody else defined (a spy), or
\* the interceptor that the installation of tracker k defined.
NoOwn == 0
ForeignOwn == -2

VARIABLES nodes, nodeName, type, valueSlot, checkedSlot, own, valueTracker,
          proto, tracker, nextId, last, calls

vars == <<nodes, nodeName, type, valueSlot, checkedSlot, own, valueTracker,
          proto, tracker, nextId, last, calls>>

\* ------------------------------------------------------- conversions
\* '' + value
ToStr(v) ==
  CASE v = JsTrue -> "true"
    [] v = JsFalse -> "false"
    [] v = JsUndefined -> "undefined"
    [] OTHER -> v

\* ToBoolean(value): what `node.checked ? .. : ..` and the host's checked
\* setter make of a value.
ToBoolean(v) ==
  CASE v = JsTrue -> TRUE
    [] v = JsFalse -> FALSE
    [] v = JsUndefined -> FALSE
    [] OTHER -> v # ""

BoolToJs(b) == IF b THEN JsTrue ELSE JsFalse

\* nodeName.toLowerCase()
ToLowerCase(s) ==
  CASE s = "INPUT" -> "input"
    [] s = "TEXTAREA" -> "textarea"
    [] OTHER -> s

\* ------------------------------------------------- class descriptors
AbsentDescriptor == [present |-> FALSE, get |-> NoAccessor, set |-> NoAccessor]
NativeDescriptor == [present |-> TRUE, get |-> "native", set |-> "native"]
PatchedDescriptor == [present |-> TRUE, get |-> "patched", set |-> "patched"]
GetOnlyDescriptor == [present |-> TRUE, get |-> "native", set |-> NoAccessor]
SetOnlyDescriptor == [present |-> TRUE, get |-> NoAccessor, set |-> "native"]
Descriptors == {AbsentDescriptor, NativeDescriptor, PatchedDescriptor,
                GetOnlyDescriptor, SetOnlyDescriptor}

\* Object.getOwnPropertyDescriptor(node.constructor.prototype, valueField)
GetOwnPropertyDescriptor(f) == proto[f]

\* What a class-level or foreign getter returns for node n: the host slot.
SlotGet(n, f) ==
  IF f = "checked" THEN BoolToJs(checkedSlot[n]) ELSE valueSlot[n]

\* ------------------------------------------------------ the program
\* Mutant of isCheckable: radio buttons are not taken as checkable.
isCheckable_CheckboxOnly(n) ==
  /\ nodeName[n] # ""
  /\ ToLowerCase(nodeName[n]) = "input"
  /\ type[n] = "checkbox"

\* isCheckable(elem)
isCheckable(n) ==
  /\ nodeName[n] # ""
  /\ ToLowerCase(nodeName[n]) = "input"
  /\ type[n] \in {"checkbox", "radio"}

\* getTracker(node)
getTracker(n) == valueTracker[n]

\* A tracker reference is truthy when it is an object.
Truthy(t) == t \in TrackerIds

\* The getter the interceptor installed on node n delegates to: the one of
\* the class descriptor at call time, else the one captured at installation.
InterceptorGetter(n) ==
  LET currentDescriptor == GetOwnPropertyDescriptor(tracker[n].valueField)
  IN IF ~currentDescriptor.present \/ currentDescriptor.get = NoAccessor
       THEN tracker[n].get
       ELSE currentDescriptor.get

\* Mutant of InterceptorSetter: the setter captured at installation is
\* always the one called.
InterceptorSetter_Captured(n) == tracker[n].set

\* The setter the interceptor installed on node n delegates to.
InterceptorSetter(n) ==
  LET currentDescriptor == GetOwnPropertyDescriptor(tracker[n].valueField)
  IN IF ~currentDescriptor.present \/ currentDescriptor.set = NoAccessor
       THEN tracker[n].set
       ELSE currentDescriptor.set

\* The accessor function a read of node[f] ends in: the own property's if
\* the node has one, else the class descriptor's; "none" if there is no
\* getter to call.
ResolveGetter(n, f) ==
  IF own[n][f] = NoOwn
    THEN IF proto[f].present THEN proto[f].get ELSE NoAccessor
    ELSE IF own[n][f] = ForeignOwn THEN "spy" ELSE InterceptorGetter(n)

\* The accessor function a write node[f] = v ends in.
ResolveSetter(n, f) ==
  IF own[n][f] = NoOwn
    THEN IF proto[f].present THEN proto[f].set ELSE NoAccessor
    ELSE IF own[n][f] = ForeignOwn THEN "spy" ELSE InterceptorSetter(n)

\* node[f]
Get(n, f) ==
  IF ResolveGetter(n, f) = NoAccessor THEN JsUndefined ELSE SlotGet(n, f)

\* getValueFromNode(node)
getValueFromNode(n) ==
  IF n = NoNode THEN ""
  ELSE IF isCheckable(n)
    THEN (IF ToBoolean(Get(n, "checked")) THEN "true" ELSE "false")
    ELSE Get(n, "value")

\* const valueField = isCheckable(node) ? 'checked' : 'value'
ValueField(n) == IF isCheckable(n) THEN "checked" ELSE "value"

\* Mutant of SeedValue: the seed is taken without the string coercion.
SeedValue_Raw(n, f) == Get(n, f)

\* let currentValue = '' + node[valueField]
SeedValue(n, f) == ToStr(Get(n, f))

\* Mutant of ShouldBail: the hasOwnProperty test is missing.
ShouldBail_NoOwnCheck(n, f) ==
  LET descriptor == GetOwnPropertyDescriptor(f)
  IN \/ ~descriptor.present
     \/ descriptor.get = NoAccessor
     \/ descriptor.set = NoAccessor

\* Mutant of ShouldBail: the test for a setter is missing.
ShouldBail_NoSetterCheck(n, f) ==
  LET descriptor == GetOwnPropertyDescriptor(f)
  IN \/ own[n][f] # NoOwn
     \/ ~descriptor.present
     \/ descriptor.get = NoAccessor

\* The bail condition of trackValueOnNode.
ShouldBail(n, f) ==
  LET descriptor == GetOwnPropertyDescriptor(f)
  IN \/ own[n][f] # NoOwn
     \/ ~descriptor.present
     \/ descriptor.get = NoAccessor
     \/ descriptor.set = NoAccessor

\* Mutant of NewTracker: the recorded value of the node's previous tracker is
\* taken over instead of a fresh seed.
NewTracker_StaleSeed(n, k) ==
  LET f == ValueField(n)
  IN [id |-> k, valueField |-> f, currentValue |-> tracker[n].currentValue,
      get |-> GetOwnPropertyDescriptor(f).get,
      set |-> GetOwnPropertyDescriptor(f).set]

\* The tracker (closure) trackValueOnNode builds for node n, as object k.
NewTracker(n, k) ==
  LET f == ValueField(n)
  IN [id |-> k, valueField |-> f, currentValue |-> SeedValue(n, f),
      get |-> GetOwnPropertyDescriptor(f).get,
      set |-> GetOwnPropertyDescriptor(f).set]

\* No tracker was ever built for the node.
NoTracker == [id |-> TUndefined, valueField |-> "value", currentValue |-> "",
              get |-> NoAccessor, set |-> NoAccessor]

\* tracker.getValue(), of the tracker of node n
getValue(n) == tracker[n].currentValue

\* Mutant of setValue: the value is not stored.
setValue_NotStored(n, v) == tracker

\* tracker.setValue(value), of the tracker of node n: the trackers after it.
setValue(n, v) == [tracker EXCEPT ![n].currentValue = ToStr(v)]

\* Mutant of Differs: the values are compared by their truthiness.
Differs_Truthiness(nextValue, lastValue) ==
  ToBoolean(nextValue) # ToBoolean(lastValue)

\* nextValue !== lastValue
Differs(nextValue, lastValue) == nextValue # lastValue

\* The operation that ran last: its name, node, argument and result, the
\* accessor function a read or a write of a field ended in, and, for
\* updateValueIfChanged, the operation that ran on the same node right
\* before it.
After(op, n) ==
  IF op # "update" THEN ""
  ELSE IF last.node # n THEN "other"
  ELSE IF last.op = "update" THEN "update:" \o last.ret
  ELSE IF last.op = "track" THEN "track:" \o last.arg
  ELSE IF last.op \in {"stop", "write", "host"} THEN last.op
  ELSE "other"

Via(op, n, f) ==
  IF op = "read" THEN ResolveGetter(n, f)
  ELSE IF op = "write" THEN ResolveSetter(n, f)
  ELSE ""

Record(op, n, arg, ret) ==
  [op |-> op, node |-> n, arg |-> arg, ret |-> ret, after |-> After(op, n),
   via |-> Via(op, n, arg)]

TypeOK ==
  /\ nodeName \in [AllNodes -> NodeNames]
  /\ type \in [AllNodes -> Types]
  /\ checkedSlot \in [AllNodes -> BOOLEAN]
  /\ valueTracker \in [AllNodes -> {TUndefined, TNull} \cup TrackerIds]
  /\ proto \in [Fields -> Descriptors]
  /\ nextId \in 1..(MaxTrackers + 1)

InitCommon ==
  /\ valueSlot = [n \in AllNodes |-> "a"]
  /\ checkedSlot = [n \in AllNodes |-> FALSE]
  /\ valueTracker = [n \in AllNodes |-> TUndefined]
  /\ proto = [f \in Fields |-> NativeDescriptor]
  /\ tracker = [n \in AllNodes |-> NoTracker]
  /\ nextId = 1
  /\ last = [op |-> "init", node |-> NoNode, arg |-> "", ret |-> "",
             after |-> "", via |-> ""]
  /\ calls = <<>>

\* One input element, of type text or checkbox, that may already own an
\* instance-level property for one of the fields.
Init ==
  /\ nodes = {"n1"}
  /\ nodeName = [n \in AllNodes |-> "INPUT"]
  /\ type \in [AllNodes -> {"text", "checkbox"}]
  /\ \A n \in AllNodes \ nodes : type[n] = "text"
  /\ own \in [AllNodes -> [Fields -> {NoOwn, ForeignOwn}]]
  /\ \A n \in nodes : \E f \in Fields : own[n][f] = NoOwn
  /\ \A n \in AllNodes \ nodes : \A f \in Fields : own[n][f] = NoOwn
  /\ InitCommon

\* Mutant of Track: the early return for an attached tracker is missing.
Track_NoEarlyReturn(n) ==
  /\ UNCHANGED <<calls, nodes, nodeName, type, valueSlot, checkedSlot, proto>>
  /\ IF n = NoNode
       THEN /\ last' = Record("track", n, "", "TypeError")
            /\ UNCHANGED <<own, valueTracker, tracker, nextId>>
     ELSE IF ShouldBail(n, ValueField(n))
       THEN /\ valueTracker' = [valueTracker EXCEPT ![n] = TUndefined]
            /\ last' = Record("track", n, "bailed", "undefined")
            /\ UNCHANGED <<own, tracker, nextId>>
     ELSE /\ nextId <= MaxTrackers
          /\ tracker' = [tracker EXCEPT ![n] = NewTracker(n, nextId)]
          /\ own' = [own EXCEPT ![n][ValueField(n)] = nextId]
          /\ valueTracker' = [valueTracker EXCEPT ![n] = nextId]
          /\ nextId' = nextId + 1
          /\ last' = Record("track", n, "attached", "undefined")

\* track(node).  The record notes what the call did: "kept" the tracker
\* already attached, "bailed", or "attached" a new tracker.
Track(n) ==
  /\ UNCHANGED <<calls, nodes, nodeName, type, valueSlot, checkedSlot, proto>>
  /\ IF n = NoNode
       THEN /\ last' = Record("track", n, "", "TypeError")
            /\ UNCHANGED <<own, valueTracker, tracker, nextId>>
     ELSE IF Truthy(getTracker(n))
       THEN /\ last' = Record("track", n, "kept", "undefined")
            /\ UNCHANGED <<own, valueTracker, tracker, nextId>>
     ELSE IF ShouldBail(n, ValueField(n))
       THEN /\ valueTracker' = [valueTracker EXCEPT ![n] = TUndefined]
            /\ last' = Record("track", n, "bailed", "undefined")
            /\ UNCHANGED <<own, tracker, nextId>>
     ELSE /\ nextId <= MaxTrackers
          /\ tracker' = [tracker EXCEPT ![n] = NewTracker(n, nextId)]
          /\ own' = [own EXCEPT ![n][ValueField(n)] = nextId]
          /\ valueTracker' = [valueTracker EXCEPT ![n] = nextId]
          /\ nextId' = nextId + 1
          /\ last' = Record("track", n, "attached", "undefined")

\* Mutant of UpdateValueIfChanged: without a tracker it returns false.
UpdateValueIfChanged_NoTrackerFalse(n) ==
  /\ UNCHANGED <<calls, nodes, nodeName, type, valueSlot, checkedSlot, own,
                 valueTracker, proto, nextId>>
  /\ IF n = NoNode \/ ~Truthy(getTracker(n))
       THEN /\ last' = Record("update", n, "", "false")
            /\ UNCHANGED tracker
     ELSE LET lastValue == getValue(n)
              nextValue == getValueFromNode(n)
          IN IF Differs(nextValue, lastValue)
               THEN /\ tracker' = setValue(n, nextValue)
                    /\ last' = Record("update", n, "", "true")
               ELSE /\ last' = Record("update", n, "", "false")
                    /\ UNCHANGED tracker

\* Mutant of UpdateValueIfChanged: the test for an absent node is missing,
\* so reading the tracker of the absent node throws.
UpdateValueIfChanged_NoNullTest(n) ==
  /\ UNCHANGED <<calls, nodes, nodeName, type, valueSlot, checkedSlot, own,
                 valueTracker, proto, nextId>>
  /\ IF n = NoNode
       THEN /\ last' = Record("update", n, "", "TypeError")
            /\ UNCHANGED tracker
     ELSE IF ~Truthy(getTracker(n))
       THEN /\ last' = Record("update", n, "", "true")
            /\ UNCHANGED tracker
     ELSE LET lastValue == getValue(n)
              nextValue == getValueFromNode(n)
          IN IF Differs(nextValue, lastValue)
               THEN /\ tracker' = setValue(n, nextValue)
                    /\ last' = Record("update", n, "", "true")
               ELSE /\ last' = Record("update", n, "", "false")
                    /\ UNCHANGED tracker

\* updateValueIfChanged(node)
UpdateValueIfChanged(n) ==
  /\ UNCHANGED <<calls, nodes, nodeName, type, valueSlot, checkedSlot, own,
                 valueTracker, proto, nextId>>
  /\ IF n = NoNode
       THEN /\ last' = Record("update", n, "", "false")
            /\ UNCHANGED tracker
     ELSE IF ~Truthy(getTracker(n))
       THEN /\ last' = Record("update", n, "", "true")
            /\ UNCHANGED tracker
     ELSE LET lastValue == getValue(n)
              nextValue == getValueFromNode(n)
          IN IF Differs(nextValue, lastValue)
               THEN /\ tracker' = setValue(n, nextValue)
                    /\ last' = Record("update", n, "", "true")
               ELSE /\ last' = Record("update", n, "", "false")
                    /\ UNCHANGED tracker

\* tracker.stopTracking(), of the tracker of node n:
\* Mutant of TrackerStopTracking: the delete of the own property is missing.
TrackerStopTracking_NoDelete(n) ==
  /\ valueTracker' = [valueTracker EXCEPT ![n] = TNull]
  /\ own' = own

\* Mutant of TrackerStopTracking: the tracker reference is not cleared.
TrackerStopTracking_NoDetach(n) ==
  /\ valueTracker' = valueTracker
  /\ own' = [own EXCEPT ![n][tracker[n].valueField] = NoOwn]

\* detachTracker(node); delete node[valueField]
TrackerStopTracking(n) ==
  /\ valueTracker' = [valueTracker EXCEPT ![n] = TNull]
  /\ own' = [own EXCEPT ![n][tracker[n].valueField] = NoOwn]

\* stopTracking(node)
StopTracking(n) ==
  /\ UNCHANGED <<calls, nodes, nodeName, type, valueSlot, checkedSlot, proto,
                 tracker, nextId>>
  /\ IF n = NoNode
       THEN /\ last' = Record("stop", n, "", "TypeError")
            /\ UNCHANGED <<own, valueTracker>>
     ELSE IF Truthy(getTracker(n))
       THEN /\ TrackerStopTracking(n)
            /\ last' = Record("stop", n, "", "undefined")
       ELSE /\ last' = Record("stop", n, "", "undefined")
            /\ UNCHANGED <<own, valueTracker>>

\* ------------------------------------------------- the environment
\* What the class-level (or a foreign) setter does with the value written:
\* the host coerces it into the slot behind the field.
SlotSetValue(n, f, v) ==
  IF f = "value" THEN [valueSlot EXCEPT ![n] = ToStr(v)] ELSE valueSlot

SlotSetChecked(n, f, v) ==
  IF f = "checked" THEN [checkedSlot EXCEPT ![n] = ToBoolean(v)] ELSE checkedSlot

\* Mutant of RecordWrite: the recorded value is one cell shared by all
\* trackers instead of a variable of each installation's closure.
RecordWrite_SharedCell(n, f, v) ==
  IF own[n][f] \in TrackerIds
    THEN [m \in AllNodes |-> [tracker[m] EXCEPT !.currentValue = ToStr(v)]]
    ELSE tracker

\* Mutant of RecordWrite: the set accessor delegates without recording.
RecordWrite_NotRecorded(n, f, v) == tracker

\* The trackers after the write node[f] = v: the installed set accessor
\* records '' + value in its tracker's cell before it delegates.
RecordWrite(n, f, v) ==
  IF own[n][f] \in TrackerIds THEN setValue(n, v) ELSE tracker

\* A script assigns node[f] = v.  The assignment goes through the node's
\* own property if it has one (the interceptor or a spy), else through the
\* class-level setter.
WriteField(n, f, v) ==
  /\ ResolveSetter(n, f) # NoAccessor
  /\ tracker' = RecordWrite(n, f, v)
  /\ valueSlot' = SlotSetValue(n, f, v)
  /\ checkedSlot' = SlotSetChecked(n, f, v)
  /\ last' = Record("write", n, f, ToStr(v))
  /\ UNCHANGED <<calls, nodes, nodeName, type, own, valueTracker, proto, nextId>>

\* A script reads node[f].
ReadField(n, f) ==
  /\ last' = Record("read", n, f, Get(n, f))
  /\ UNCHANGED <<calls, nodes, nodeName, type, valueSlot, checkedSlot, own,
                 valueTracker, proto, tracker, nextId>>

\* The host changes the field behind the accessors' back (typing, a click,
\* autofill): the slot changes and no instance-level setter runs.
HostInput(n, f, v) ==
  /\ \/ f = "value" /\ v \in Strs
     \/ f = "checked" /\ v \in {JsTrue, JsFalse}
  /\ valueSlot' = SlotSetValue(n, f, v)
  /\ checkedSlot' = SlotSetChecked(n, f, v)
  /\ last' = Record("host", n, f, ToStr(v))
  /\ UNCHANGED <<calls, nodes, nodeName, type, own, valueTracker, proto, tracker,
                 nextId>>

\* node.type = t
SetType(n, t) ==
  /\ type[n] # t
  /\ type' = [type EXCEPT ![n] = t]
  /\ last' = Record("type", n, t, "")
  /\ UNCHANGED <<calls, nodes, nodeName, valueSlot, checkedSlot, own, valueTracker,
                 proto, tracker, nextId>>

\* node._valueTracker.setValue(v), for the tracker attached to node n.
TrackerSetValue(n, v) ==
  /\ Truthy(getTracker(n))
  /\ tracker' = setValue(n, v)
  /\ last' = Record("setValue", n, "", ToStr(v))
  /\ UNCHANGED <<calls, nodes, nodeName, type, valueSlot, checkedSlot, own,
                 valueTracker, proto, nextId>>

\* The environment redefines or deletes the class-level descriptor of f
\* (it tampers with one field at a time: the other field's is the native one).
RedefineDescriptor(f, d) ==
  /\ proto[f] # d
  /\ \A g \in Fields \ {f} : proto[g] = NativeDescriptor
  /\ proto' = [proto EXCEPT ![f] = d]
  /\ last' = Record("redefine", NoNode, f, "")
  /\ UNCHANGED <<calls, nodes, nodeName, type, valueSlot, checkedSlot, own,
                 valueTracker, tracker, nextId>>

Next ==
  \/ \E n \in nodes \cup {NoNode} : Track(n)
  \/ \E n \in nodes \cup {NoNode} : UpdateValueIfChanged(n)
  \/ \E n \in nodes \cup {NoNode} : StopTracking(n)
  \/ \E n \in nodes, f \in Fields, v \in Written : WriteField(n, f, v)
  \/ \E n \in nodes, f \in Fields : ReadField(n, f)
  \/ \E n \in nodes, f \in Fields, v \in Strs \cup {JsTrue, JsFalse} :
       HostInput(n, f, v)
  \/ \E n \in nodes, t \in {"text", "checkbox"} : SetType(n, t)
  \/ \E n \in nodes, v \in Written : TrackerSetValue(n, v)
  \/ \E f \in Fields, d \in Descriptors : RedefineDescriptor(f, d)

Spec == Init /\ [][Next]_vars

\* ------------------------------------------------------------ claims
\* Everything but the record of the last operation.
state == <<nodes, nodeName, type, valueSlot, checkedSlot, own, valueTracker,
           proto, tracker, nextId>>

\* Node n has a tracker attached.
Tracked(n) == valueTracker[n] \in TrackerIds

\* The step is the call op(n).
Called(op, n) == last'.op = op /\ last'.node = n

\* C1 (as claimed): for a node with a tracker attached,
\* updateValueIfChanged returns true iff the recorded value differs from a
\* fresh getValueFromNode read; when it returns true the recorded value
\* afterwards equals that read, when it returns false the recorded value is
\* unchanged, and the node's field values are not written.
C1_AsClaimed ==
  [][\A n \in nodes : (Tracked(n) /\ Called("update", n)) =>
       /\ (last'.ret = "true") <=> (tracker[n].currentValue # getValueFromNode(n))
       /\ last'.ret = "true" => tracker'[n].currentValue = getValueFromNode(n)
       /\ last'.ret = "false" => tracker'[n].currentValue = tracker[n].currentValue
       /\ valueSlot' = valueSlot /\ checkedSlot' = checkedSlot]_vars

\* C1 (what the code does): as claimed, except that when updateValueIfChanged returns
\* true the recorded value afterwards is the string form ('' + read) of the
\* fresh read, which is the read itself whenever the read is a string.
C1_UpdateOnTracked ==
  [][\A n \in nodes : (Tracked(n) /\ Called("update", n)) =>
       /\ (last'.ret = "true") <=> (tracker[n].currentValue # getValueFromNode(n))
       /\ last'.ret = "true" =>
            tracker'[n].currentValue = ToStr(getValueFromNode(n))
       /\ (last'.ret = "true" /\ getValueFromNode(n) # JsUndefined) =>
            tracker'[n].currentValue = getValueFromNode(n)
       /\ last'.ret = "false" => tracker'[n].currentValue = tracker[n].currentValue
       /\ valueSlot' = valueSlot /\ checkedSlot' = checkedSlot]_vars

\* C1 witness: the host changed the field behind the interceptor and the
\* update that followed on the tracked node returned true.
C1_Witness ==
  /\ last.op = "update" /\ last.node \in nodes /\ last.after = "host"
  /\ Tracked(last.node) /\ last.ret = "true"
  /\ tracker[last.node].currentValue = getValueFromNode(last.node)

\* The operation before this step was op on node n.
Before(op, n) == last.op = op /\ last.node = n

\* C2 (as claimed): on a tracked node, a direct write to the tracked field
\* followed by updateValueIfChanged returns true, leaving the recorded value
\* equal to the string form of the written value, and a second immediate
\* call returns false.
C2_AsClaimed ==
  [][\A n \in nodes : (Tracked(n) /\ Called("update", n)) =>
       /\ ((Before("write", n) \/ Before("host", n))
             /\ last.arg = tracker[n].valueField) =>
            (last'.ret = "true" /\ tracker'[n].currentValue = last.ret)
       /\ (Before("update", n) /\ last.ret = "true") => last'.ret = "false"]_vars

\* C2 (amended): on a tracked node, a change of a field made behind the
\* intercepted accessor (host input) followed by updateValueIfChanged
\* returns true if and only if the value the query then reads differs from
\* the recorded value, and leaves the recorded value equal to the string
\* form of the value read, which is the string form of the new value when
\* the host changed the field the query reads and the field is readable; a
\* second immediate call returns false unless the query reads undefined.  A
\* write through the intercepted accessor is recorded by the accessor
\* itself, and the updateValueIfChanged that follows returns false whenever
\* the node reads back the string form of the written value.
C2_HostChangeReportedOnce ==
  [][\A n \in nodes : (Tracked(n) /\ Called("update", n)) =>
       /\ Before("host", n) =>
            /\ (last'.ret = "true") <=>
                 (getValueFromNode(n) # tracker[n].currentValue)
            /\ tracker'[n].currentValue = ToStr(getValueFromNode(n))
            /\ (last.arg = (IF isCheckable(n) THEN "checked" ELSE "value")
                  /\ ResolveGetter(n, last.arg) # NoAccessor) =>
                 getValueFromNode(n) = last.ret
       /\ (Before("update", n) /\ last.ret = "true") =>
            ((last'.ret = "false") <=> (getValueFromNode(n) # JsUndefined))
       /\ (Before("write", n) /\ last.arg = tracker[n].valueField) =>
            /\ tracker[n].currentValue = last.ret
            /\ getValueFromNode(n) = last.ret => last'.ret = "false"]_vars

\* C2 witness: a tracked checkable input whose box the host checked; the
\* first update returned true and recorded "true", the second returned false.
C2_Witness ==
  /\ last.op = "update" /\ last.node \in nodes /\ last.after = "update:true"
  /\ last.ret = "false" /\ Tracked(last.node) /\ isCheckable(last.node)
  /\ tracker[last.node].valueField = "checked"
  /\ tracker[last.node].currentValue = "true"

\* C3 (as claimed): for any node, track followed immediately by
\* updateValueIfChanged returns false.
C3_AsClaimed ==
  (last.op = "update" /\ last.node \in nodes
     /\ last.after \in {"track:attached", "track:bailed"})
    => last.ret = "false"

\* C3 (amended): for any node on which track attaches a tracker (the
\* interception does not bail), track followed immediately by
\* updateValueIfChanged returns false.
C3_TrackThenUpdate ==
  (last.op = "update" /\ last.node \in nodes /\ last.after = "track:attached")
    => last.ret = "false"

\* C3 witness: updateValueIfChanged right after a track that attached a
\* tracker to a checkable node.
C3_Witness ==
  /\ last.op = "update" /\ last.node \in nodes /\ last.after = "track:attached"
  /\ last.ret = "false" /\ isCheckable(last.node)

\* C4: track on a node that already has a tracker attached changes nothing:
\* the tracker reference (its identity), the recorded value, the node's own
\* properties (no second accessor) and the number of trackers ever created
\* are as before.
C4_TrackTwice ==
  [][\A n \in nodes : (Tracked(n) /\ Called("track", n)) =>
       /\ valueTracker' = valueTracker
       /\ tracker' = tracker
       /\ own' = own
       /\ nextId' = nextId
       /\ state' = state]_vars

\* C4 witness: a track call that found a tracker attached.
C4_Witness ==
  /\ last.op = "track" /\ last.node \in nodes /\ last.arg = "kept"
  /\ Tracked(last.node) /\ own[last.node][tracker[last.node].valueField] = valueTracker[last.node]

\* C5: when no tracker is attached to a node, updateValueIfChanged returns
\* true whatever the node's value and changes nothing, so every further call
\* returns true until a tracker is attached; this is so after stopTracking
\* and a direct write.
C5_NoTrackerAssumesChanged ==
  [][\A n \in nodes : (valueTracker[n] \notin TrackerIds /\ Called("update", n)) =>
       (last'.ret = "true" /\ state' = state)]_vars

\* C5 witness: stopTracking, then a write to the field, then an
\* updateValueIfChanged that returned true.
C5_Witness ==
  /\ last.op = "update" /\ last.node \in nodes /\ last.after = "write"
  /\ valueTracker[last.node] = TNull /\ last.ret = "true"

\* No tracker was ever attached to node n.
NeverTracked(n) == valueTracker[n] = TUndefined /\ tracker[n].id = TUndefined

\* C6 (as claimed): updateValueIfChanged and stopTracking, called on an
\* absent node or on a never-tracked node, never fail: the call returns and
\* leaves all node and tracker state unchanged.
C6_AsClaimed ==
  [][\A n \in nodes \cup {NoNode} :
       ((Called("update", n) \/ Called("stop", n))
          /\ (n = NoNode \/ NeverTracked(n))) =>
         (last'.ret # "TypeError" /\ state' = state)]_vars

\* C7: updateValueIfChanged called with an absent node returns false and
\* changes no state.
C7_UpdateAbsentNode ==
  [][Called("update", NoNode) => (last'.ret = "false" /\ state' = state)]_vars

\* C7 witness: updateValueIfChanged(null) ran while a node was tracked.
C7_Witness ==
  /\ last.op = "update" /\ last.node = NoNode /\ last.ret = "false"
  /\ \E n \in nodes : Tracked(n)

\* The interception of node n would bail: the node owns a property for the
\* target field, or the class has no descriptor for it, or the descriptor
\* lacks a getter or a setter.
BailCase(n) ==
  LET f == IF isCheckable(n) THEN "checked" ELSE "value"
  IN \/ own[n][f] # NoOwn
     \/ ~proto[f].present
     \/ proto[f].get = NoAccessor
     \/ proto[f].set = NoAccessor

\* C8: when track is called on a node without a tracker in a bail case, it
\* attaches no tracker (the reference stays absent) and changes neither the
\* node's properties, type or field values nor the class, and the
\* updateValueIfChanged that follows returns true.
C8_BailPath ==
  [][\A n \in nodes :
       /\ (valueTracker[n] \notin TrackerIds /\ BailCase(n) /\ Called("track", n)) =>
            /\ valueTracker'[n] \notin TrackerIds
            /\ <<nodes, nodeName, type, valueSlot, checkedSlot, own, proto,
                 tracker, nextId>>' =
               <<nodes, nodeName, type, valueSlot, checkedSlot, own, proto,
                 tracker, nextId>>
       /\ (Before("track", n) /\ last.arg = "bailed" /\ Called("update", n)) =>
            last'.ret = "true"]_vars

\* C8 witness: track bailed on a node that owns a foreign property for the
\* target field, and the update after it returned true.
C8_Witness ==
  /\ last.op = "update" /\ last.node \in nodes /\ last.after = "track:bailed"
  /\ last.ret = "true"
  /\ own[last.node][IF isCheckable(last.node) THEN "checked" ELSE "value"] = ForeignOwn

\* C9: the recorded value of an attached tracker is the string form of the
\* latest of: the field's value at installation, a write through the
\* intercepted accessor, a tracker setValue call (updateValueIfChanged makes
\* one when it returns true); no other step (a read, a change behind the
\* accessor, a type change, a redefinition of the class) changes it.
C9_WriteLogCursor ==
  [][\A n \in nodes : valueTracker'[n] \in TrackerIds =>
       IF Called("track", n) /\ ~Tracked(n)
         THEN tracker'[n].currentValue = ToStr(Get(n, tracker'[n].valueField))
       ELSE IF Called("write", n) /\ last'.arg = tracker[n].valueField
         THEN tracker'[n].currentValue = last'.ret
       ELSE IF Called("setValue", n)
         THEN tracker'[n].currentValue = last'.ret
       ELSE IF Called("update", n) /\ last'.ret = "true"
         THEN tracker'[n].currentValue = ToStr(getValueFromNode(n))
       ELSE tracker'[n].currentValue = tracker[n].currentValue]_vars

\* C9 witness: a write through the intercepted accessor was recorded in its
\* string form, which is not what the node now reads.
C9_Witness ==
  /\ last.op = "write" /\ last.node \in nodes /\ Tracked(last.node)
  /\ last.arg = tracker[last.node].valueField
  /\ tracker[last.node].currentValue = last.ret
  /\ getValueFromNode(last.node) # last.ret

\* C10: a node gets a tracker only by a track call on which the interception
\* does not bail, loses it only by stopTracking, and no step replaces an
\* attached tracker by another; updateValueIfChanged and the reads and
\* writes of the field leave the tracker reference as it is.
C10_StateMachine ==
  [][\A n \in nodes :
       /\ (~Tracked(n) /\ valueTracker'[n] \in TrackerIds) =>
            (Called("track", n) /\ ~BailCase(n))
       /\ (Tracked(n) /\ valueTracker'[n] \notin TrackerIds) => Called("stop", n)
       /\ (Tracked(n) /\ valueTracker'[n] \in TrackerIds) =>
            valueTracker'[n] = valueTracker[n]
       /\ last'.op \in {"update", "write", "read", "host", "setValue"} =>
            valueTracker' = valueTracker]_vars

\* C10 witness: the node was tracked, untracked and tracked again.
C10_Witness ==
  /\ last.op = "track" /\ last.node \in nodes /\ last.arg = "attached"
  /\ valueTracker[last.node] = 2


\* The getter and the setter the class currently defines for field f.
ClassGetter(f) == IF proto[f].present THEN proto[f].get ELSE NoAccessor
ClassSetter(f) == IF proto[f].present THEN proto[f].set ELSE NoAccessor

\* C11: stopTracking on a tracked node clears the tracker reference and
\* removes the instance-level accessor of the tracked field, and changes
\* nothing else.  On a node whose tracker was stopped the node does not own
\* the field any more, a read or a write of the field ends in the accessor
\* the class defines at that moment, and such a write changes no tracker's
\* recorded value.
C11_StopRestoresClassAccessors ==
  [][\A n \in nodes :
       /\ (valueTracker[n] \in TrackerIds /\ Called("stop", n)) =>
            /\ valueTracker' = [valueTracker EXCEPT ![n] = TNull]
            /\ own' = [own EXCEPT ![n][tracker[n].valueField] = NoOwn]
            /\ UNCHANGED <<nodeName, type, valueSlot, checkedSlot, proto,
                           tracker>>
       /\ valueTracker[n] = TNull =>
            /\ own[n][tracker[n].valueField] = NoOwn
            /\ (Called("write", n) /\ last'.arg = tracker[n].valueField) =>
                 /\ last'.via = ClassSetter(last'.arg)
                 /\ tracker' = tracker
            /\ (Called("read", n) /\ last'.arg = tracker[n].valueField) =>
                 /\ last'.via = ClassGetter(last'.arg)
                 /\ last'.ret = IF ClassGetter(last'.arg) = NoAccessor
                                  THEN JsUndefined
                                  ELSE SlotGet(n, last'.arg)]_vars

\* C11 witness: after stopTracking a write of the formerly tracked field
\* went to the class setter and the stopped tracker's recorded value did not
\* follow it.
C11_Witness ==
  /\ last.op = "write" /\ last.node \in nodes
  /\ valueTracker[last.node] = TNull
  /\ last.arg = tracker[last.node].valueField
  /\ last.via = "native"
  /\ own[last.node][last.arg] = NoOwn
  /\ tracker[last.node].currentValue # last.ret

\* The step is the script write node[f] = v of the value that node[f]
\* already holds, through the accessor the tracker of n installed.
WritesHeldValue(n) ==
  /\ valueTracker[n] \in TrackerIds /\ Called("write", n)
  /\ last'.arg = tracker[n].valueField
  /\ Get(n, last'.arg) \in Written
  /\ last'.ret = ToStr(Get(n, last'.arg))

\* C12 (as claimed): on a tracked node, after a write through the
\* intercepted accessor of the value the node already holds, the value
\* updateValueIfChanged reads is the recorded one, so it reports no change
\* (a tracked text input holding "a", node.value = "a", then
\* updateValueIfChanged returns false).
C12_AsClaimed ==
  [][\A n \in nodes : WritesHeldValue(n) =>
       (getValueFromNode(n) = tracker[n].currentValue)']_vars

\* ------------------------------------------- re-entrant writes (C13)
\* The installed set accessor, step by step.  calls lists the intercepted
\* writes entered since the outermost one began, in the order they were
\* entered; each is "recorded" (line 101 ran, the delegated setter has not
\* stored yet), "stored" (the delegated setter stored the value and is still
\* running, e.g. dispatching a synchronous callback) or "returned".
Active == {i \in 1..Len(calls) : calls[i].status # "returned"}
Top == CHOOSE i \in Active : \A j \in Active : j <= i

\* Mutant of RecordBeforeDelegate: the accessor delegates without having
\* recorded the value.
RecordBeforeDelegate_Missing(n, v) == tracker

\* currentValue = '' + value, the first statement of the set accessor
RecordBeforeDelegate(n, v) == setValue(n, v)

\* node[valueField] = v enters the installed set accessor, from a script
\* (calls is empty) or from code the delegated setter of a write in
\* progress runs.
SetEnter(n, v) ==
  /\ own[n][tracker[n].valueField] \in TrackerIds
  /\ Len(calls) < MaxCalls
  /\ tracker' = RecordBeforeDelegate(n, v)
  /\ calls' = Append(calls, [node |-> n, value |-> v, status |-> "recorded"])
  /\ last' = Record("set:enter", n, tracker[n].valueField, ToStr(v))
  /\ UNCHANGED <<nodes, nodeName, type, valueSlot, checkedSlot, own,
                 valueTracker, proto, nextId>>

\* The delegated setter of the innermost write in progress stores the value.
DelegateStore ==
  /\ Active # {}
  /\ calls[Top].status = "recorded"
  /\ LET n == calls[Top].node
         f == tracker[n].valueField
         v == calls[Top].value
     IN /\ valueSlot' = SlotSetValue(n, f, v)
        /\ checkedSlot' = SlotSetChecked(n, f, v)
        /\ last' = Record("set:store", n, f, ToStr(v))
  /\ calls' = [calls EXCEPT ![Top].status = "stored"]
  /\ UNCHANGED <<nodes, nodeName, type, own, valueTracker, proto, tracker,
                 nextId>>

\* Code running inside the delegated setter of a write in progress reads
\* tracker.getValue().
GetValueDuringSet(n) ==
  /\ Active # {}
  /\ valueTracker[n] \in TrackerIds
  /\ last' = Record("getValue", n, "", getValue(n))
  /\ UNCHANGED <<calls, nodes, nodeName, type, valueSlot, checkedSlot, own,
                 valueTracker, proto, tracker, nextId>>

\* The innermost write in progress returns; when it is the outermost one
\* the script continues.
SetReturn ==
  /\ Active # {}
  /\ calls[Top].status = "stored"
  /\ calls' = IF Active = {Top}
                THEN <<>>
                ELSE [calls EXCEPT ![Top].status = "returned"]
  /\ last' = Record("set:return", calls[Top].node, "",
                    ToStr(calls[Len(calls)].value))
  /\ UNCHANGED <<nodes, nodeName, type, valueSlot, checkedSlot, own,
                 valueTracker, proto, tracker, nextId>>

NextReentrant ==
  \/ \E n \in nodes : calls = <<>> /\ Track(n)
  \/ \E n \in nodes, v \in Written : SetEnter(n, v)
  \/ DelegateStore
  \/ \E n \in nodes : GetValueDuringSet(n)
  \/ SetReturn

SpecReentrant == Init /\ [][NextReentrant]_vars

\* C13: the installed set accessor records the written value before it
\* delegates: right after a write is entered its value is the recorded one
\* and nothing has been stored yet; while writes are in progress the
\* recorded value, and so whatever tracker.getValue() returns to code run by
\* a delegated setter, is the string form of the write entered last, nested
\* writes included; and when the outermost write returns the recorded value
\* is that of the write recorded last.
C13_RecordedBeforeDelegating ==
  [][\A n \in nodes :
       /\ Called("set:enter", n) =>
            /\ tracker'[n].currentValue = last'.ret
            /\ calls'[Len(calls')].status = "recorded"
            /\ UNCHANGED <<valueSlot, checkedSlot>>
       /\ (calls' # <<>> /\ calls'[Len(calls')].node = n) =>
            tracker'[n].currentValue = ToStr(calls'[Len(calls')].value)
       /\ (Called("getValue", n) /\ calls[Len(calls)].node = n) =>
            last'.ret = ToStr(calls[Len(calls)].value)
       /\ (Called("set:return", n) /\ calls' = <<>>) =>
            tracker'[n].currentValue = ToStr(calls[Len(calls)].value)]_vars

\* C13 witness: code run by the delegated setter of an outer write of "a"
\* wrote true; after the nested write returned, and before the outer one
\* did, tracker.getValue() returned "true".
C13_Witness ==
  /\ last.op = "getValue" /\ last.ret = "true"
  /\ Len(calls) = 2
  /\ calls[1].value = "a" /\ calls[1].status # "returned"
  /\ calls[2].value = JsTrue /\ calls[2].status = "returned"

\* C14: on a tracked node a read of the tracked field ends in the getter of
\* the class-level descriptor that exists when the read is made, and a write
\* in its setter, also when the descriptor was replaced after the
\* installation; the getter or setter captured at installation is used only
\* when the class has no descriptor for the field at that moment or the
\* descriptor lacks that accessor; and in every case the written value is
\* recorded.
C14_LateBinding ==
  [][\A n \in nodes :
       (valueTracker[n] \in TrackerIds /\ last'.node = n
          /\ last'.arg = tracker[n].valueField) =>
         /\ last'.op = "read" =>
              /\ last'.via = IF ClassGetter(last'.arg) # NoAccessor
                                THEN ClassGetter(last'.arg)
                                ELSE tracker[n].get
              /\ last'.ret = SlotGet(n, last'.arg)
         /\ last'.op = "write" =>
              /\ last'.via = IF ClassSetter(last'.arg) # NoAccessor
                                THEN ClassSetter(last'.arg)
                                ELSE tracker[n].set
              /\ tracker'[n].currentValue = last'.ret]_vars

\* C14 witness: the class setter was replaced after the installation and a
\* write on the tracked node ended in the replacement and was recorded.
C14_Witness ==
  /\ last.op = "write" /\ last.node \in nodes
  /\ valueTracker[last.node] \in TrackerIds
  /\ last.arg = tracker[last.node].valueField
  /\ tracker[last.node].set = "native" /\ last.via = "patched"
  /\ tracker[last.node].currentValue = last.ret

\* ------------------------------------------- sibling instances (C15)
\* Two text inputs of the same class, neither owning a property.
InitSiblings ==
  /\ nodes = AllNodes
  /\ nodeName = [n \in AllNodes |-> "INPUT"]
  /\ type = [n \in AllNodes |-> "text"]
  /\ own = [n \in AllNodes |-> [f \in Fields |-> NoOwn]]
  /\ InitCommon

NextSiblings ==
  \/ \E n \in nodes : Track(n)
  \/ \E n \in nodes : UpdateValueIfChanged(n)
  \/ \E n \in nodes : StopTracking(n)
  \/ \E n \in nodes, f \in Fields, v \in Written : WriteField(n, f, v)
  \/ \E n \in nodes, v \in Strs : HostInput(n, "value", v)

SpecSiblings == InitSiblings /\ [][NextSiblings]_vars

\* C15: track and stopTracking on a node leave the class-level descriptors
\* as they are and change nothing of a sibling instance of the same class:
\* the sibling gains no instance-level property and no tracker, and its
\* recorded value and field values stay.  A write to a node never changes
\* the recorded value of a sibling's tracker.
C15_SiblingsIsolated ==
  [][\A n \in nodes : \A m \in nodes \ {n} :
       /\ (Called("track", n) \/ Called("stop", n)) =>
            /\ proto' = proto
            /\ own'[m] = own[m]
            /\ valueTracker'[m] = valueTracker[m]
            /\ tracker'[m] = tracker[m]
            /\ valueSlot'[m] = valueSlot[m]
            /\ checkedSlot'[m] = checkedSlot[m]
       /\ valueTracker[m] \notin TrackerIds =>
            \A f \in Fields : own[m][f] = NoOwn
       /\ Called("write", n) =>
            /\ tracker'[m] = tracker[m]
            /\ valueSlot'[m] = valueSlot[m]
            /\ checkedSlot'[m] = checkedSlot[m]]_vars

\* C15 witness: both siblings are tracked and a write to one of them was
\* recorded by its own tracker only.
C15_Witness ==
  /\ last.op = "write" /\ last.node = "n2" /\ last.arg = "value"
  /\ valueTracker["n1"] \in TrackerIds /\ valueTracker["n2"] \in TrackerIds
  /\ tracker["n2"].currentValue = last.ret
  /\ tracker["n1"].currentValue # last.ret

\* --------------------------------------------- getValueFromNode (C16)
\* The values the value field of the node getValueFromNode is applied to
\* may hold.
FieldStrings == {"", "a", "true"}

\* One never-tracked node of any node name and type, holding any field
\* values, of a class with any descriptors.
InitExtract ==
  /\ nodes = {"n1"}
  /\ nodeName \in [AllNodes -> NodeNames]
  /\ type \in [AllNodes -> Types]
  /\ valueSlot \in [AllNodes -> FieldStrings]
  /\ checkedSlot \in [AllNodes -> BOOLEAN]
  /\ \A n \in AllNodes \ nodes :
       /\ nodeName[n] = "INPUT" /\ type[n] = "text"
       /\ valueSlot[n] = "a" /\ checkedSlot[n] = FALSE
  /\ own = [n \in AllNodes |-> [f \in Fields |-> NoOwn]]
  /\ valueTracker = [n \in AllNodes |-> TUndefined]
  /\ proto \in [Fields -> Descriptors]
  /\ tracker = [n \in AllNodes |-> NoTracker]
  /\ nextId = 1
  /\ last = [op |-> "init", node |-> NoNode, arg |-> "", ret |-> "",
             after |-> "", via |-> ""]
  /\ calls = <<>>

\* getValueFromNode(node), called on its own
CallGetValueFromNode(n) ==
  /\ last' = Record("getValueFromNode", n, "", getValueFromNode(n))
  /\ UNCHANGED <<calls, nodes, nodeName, type, valueSlot, checkedSlot, own,
                 valueTracker, proto, tracker, nextId>>

NextExtract ==
  \E n \in nodes \cup {NoNode} : CallGetValueFromNode(n)

SpecExtract == InitExtract /\ [][NextExtract]_vars

\* C16: getValueFromNode returns "" for an absent node; for a checkable node
\* (node name "input" in any letter case and type checkbox or radio) exactly
\* "true" or "false", "true" when the checked field reads true; for every
\* other node what the value field reads, unmodified: its current string,
\* or undefined when the class has no getter for the field.  It changes no
\* state.
C16_GetValueFromNode ==
  [][/\ Called("getValueFromNode", NoNode) => last'.ret = ""
     /\ \A n \in nodes : Called("getValueFromNode", n) =>
          IF nodeName[n] \in {"INPUT", "input"}
               /\ type[n] \in {"checkbox", "radio"}
            THEN last'.ret = IF ClassGetter("checked") # NoAccessor
                                  /\ checkedSlot[n]
                               THEN "true" ELSE "false"
            ELSE last'.ret = IF ClassGetter("value") # NoAccessor
                               THEN valueSlot[n] ELSE JsUndefined
     /\ last'.op = "getValueFromNode" => (state' = state /\ calls' = calls)]_vars

\* C16 witness: a radio button whose node name is in lower case and whose
\* value field holds "a" was read as "true".
C16_Witness ==
  /\ last.op = "getValueFromNode" /\ last.node = "n1" /\ last.ret = "true"
  /\ nodeName["n1"] = "input" /\ type["n1"] = "radio"
  /\ checkedSlot["n1"] /\ valueSlot["n1"] = "a"

\* C17 (as claimed): in every reachable state the field whose writes the
\* tracker of a node intercepts (chosen when track ran) is the field
\* updateValueIfChanged reads (chosen when it is called), also after the
\* node's type changed between a checkable and a non-checkable kind while
\* it was tracked.
C17_AsClaimed ==
  \A n \in nodes : valueTracker[n] \in TrackerIds =>
    /\ own[n][tracker[n].valueField] = valueTracker[n]
    /\ tracker[n].valueField = (IF isCheckable(n) THEN "checked" ELSE "value")

\* C18: in every state reached by track, stopTracking, updateValueIfChanged
\* and field writes, a node has a tracker attached if and only if it owns
\* an intercepting accessor, and then the accessor is the one that tracker
\* installed, on the tracker's field, and the node owns no other
\* interceptor.
C18_TrackerIffInterceptor ==
  \A n \in nodes :
    /\ (valueTracker[n] \in TrackerIds) <=>
         (\E f \in Fields : own[n][f] \in TrackerIds)
    /\ \A f \in Fields : own[n][f] \in TrackerIds =>
         (f = tracker[n].valueField /\ own[n][f] = valueTracker[n])

\* C18 witness: stopTracking ran on a node that had been tracked, and the
\* node is left with neither a tracker nor an interceptor.
C18_Witness ==
  /\ last.op = "stop" /\ last.node \in nodes
  /\ valueTracker[last.node] = TNull
  /\ tracker[last.node].id \in TrackerIds
  /\ \A f \in Fields : own[last.node][f] \notin TrackerIds

\* The update that follows at once a track call that attached a tracker to a
\* node tracked before returns false.
UpdateAfterRetrack ==
  \A n \in nodes :
    (valueTracker[n] \in TrackerIds /\ valueTracker[n] > 1
       /\ Called("update", n) /\ Before("track", n)
       /\ last.arg = "attached") =>
      last'.ret = "false"

\* C19 (as claimed): track on a node whose tracker was stopped attaches a
\* new tracker, distinct from the old one and seeded from the node's value
\* at that moment, so the first updateValueIfChanged after re-tracking
\* returns false whatever was changed while the node was untracked.
C19_AsClaimed ==
  [][/\ \A n \in nodes : (valueTracker[n] = TNull /\ Called("track", n)) =>
          /\ valueTracker'[n] \in TrackerIds
          /\ valueTracker'[n] # tracker[n].id
          /\ tracker'[n].currentValue
               = ToStr(Get(n, IF isCheckable(n) THEN "checked" ELSE "value"))
     /\ UpdateAfterRetrack]_vars

\* C19 (amended): track on a node whose tracker was stopped attaches a new
\* tracker, distinct from the old one and seeded from the node's value at
\* that moment, unless the interception bails (the class meanwhile lost the
\* descriptor, its getter or its setter, or the node owns a property for the
\* field its current type selects), in which case no tracker is attached;
\* the first updateValueIfChanged after a re-tracking that attached a
\* tracker returns false whatever was changed while the node was untracked.
C19_Retrack ==
  [][/\ \A n \in nodes : (valueTracker[n] = TNull /\ Called("track", n)) =>
          IF BailCase(n)
            THEN valueTracker'[n] = TUndefined /\ tracker' = tracker
            ELSE /\ valueTracker'[n] \in TrackerIds
                 /\ valueTracker'[n] # tracker[n].id
                 /\ tracker'[n].id = valueTracker'[n]
                 /\ tracker'[n].currentValue
                      = ToStr(Get(n, IF isCheckable(n) THEN "checked"
                                                       ELSE "value"))
     /\ UpdateAfterRetrack]_vars

\* C19 witness: the node was tracked, stopped, changed by the host to "b"
\* and tracked again, and the update that followed returned false.
C19_Witness ==
  /\ last.op = "update" /\ last.node \in nodes
  /\ last.after = "track:attached" /\ last.ret = "false"
  /\ valueTracker[last.node] = 2
  /\ tracker[last.node].valueField = "value"
  /\ tracker[last.node].currentValue = "b"
====
